---- MODULE Spec2Model ----
(***************************************************************************)
(* Model of the download core of common_voice_downloader.py:               *)
(*   _download_file  (the Transfer Unit, lines 298-379)                    *)
(*   download_files  (the Transfer Coordinator, lines 382-402)             *)
(*                                                                         *)
(* Entries are numbered 1..n in the order of the list built at line 391;   *)
(* entry e downloads the resource Content(e) to its own path, so the       *)
(* filesystem is a function from entries to files.  Byte counts are kept   *)
(* exact; a file is the sequence of its bytes.  The server of an entry     *)
(* behaves the same way on every request of a behaviour (net).             *)
(* A stream that breaks raises inside response.iter_content.               *)
(***************************************************************************)
EXTENDS Integers, Sequences, FiniteSets, TLC

\* ------------------------------------------------------------- bounds ----
NumEntries == 3      \* entries of a batch
MaxWorkers == 2      \* largest concurrency limit tried
ResourceLen == 4     \* bytes of every remote resource
ChunkSize == 2       \* bytes per iter_content chunk (the code's is 1 MiB)

VARIABLES
    entries,        \* ids of the entries of the batch (line 391)
    concurrency,    \* max_workers of the pool (line 392)
    net,            \* per entry: how its server behaves
    disk,           \* per entry: the file at download_filepath
    cpc,            \* position of download_files
    submitted,      \* how many entries have been submitted to the pool
    report,         \* per entry: what download_files printed for its future
    upc,            \* per entry: position of its _download_file call
    remote_size,    \* per entry: local of _download_file
    local_size,     \* per entry: local of _download_file
    headers,        \* per entry: <<>> for {}, <<k>> for Range: bytes=k-
    mode,           \* per entry: "wb" or "ab"
    status,         \* per entry: response.status_code (0: no response)
    total,          \* per entry: total_download_bytes, the bar's total
    progress,       \* per entry: the bar's counter
    body,           \* per entry: bytes of the response not yet read
    chunks,         \* per entry: chunks read from the response so far
    exit,           \* per entry: the way the call left _download_file
    headReqs,       \* per entry: HEAD requests issued in this run
    getReqs,        \* per entry: GET requests issued in this run
    disk0,          \* the disk when the current run was invoked
    prevExit        \* exit of every entry in the previous run ("none": first run)

coordVars == <<entries, concurrency, net, cpc, submitted, report>>
unitVars == <<upc, remote_size, local_size, headers, mode, status, total,
              progress, body, chunks, exit, headReqs, getReqs>>
vars == <<coordVars, unitVars, disk, disk0, prevExit>>

\* ------------------------------------------------------ the environment --
\* The bytes of the resource behind entry e's href.
Content(e) == [i \in 1..ResourceLen |-> 10 * e + i]

\* i bytes that are not bytes of any resource.
Junk(i) == [j \in 1..i |-> 0]

Absent == [st |-> "absent", data |-> <<>>]
Denied == [st |-> "denied", data |-> <<>>]
File(bytes) == [st |-> "file", data |-> bytes]

\* Files a path can hold before the first run: nothing, a path that cannot
\* be examined, a partial or complete earlier download, or foreign bytes
\* (shorter than, as long as, or longer than the resource).
InitialFiles(e) ==
    {Absent, Denied}
        \cup {File(SubSeq(Content(e), 1, k)) : k \in 0..ResourceLen}
        \cup {File(Junk(k)) : k \in 1..(ResourceLen + 1)}

\* Server behaviours: the HEAD request fails, answers without a
\* content-length, answers with the length, or is never answered ("hang");
\* the GET raises before a response, answers 404, answers honouring Range,
\* answers 200 always, answers honouring Range but without a content-length
\* ("chunked"), or is never answered ("hang"); an answered stream may break
\* after `at` chunks.
Behaviour(h, g, d, a) == [head |-> h, get |-> g, drop |-> d, at |-> a]

NetBehaviours ==
    {Behaviour(h, g, FALSE, 0) :
        h \in {"fail", "nolen", "ok", "hang"},
        g \in {"raise", "status", "range", "full", "chunked", "hang"}}
    \cup {Behaviour(h, g, TRUE, a) :
        h \in {"fail", "nolen", "ok"}, g \in {"range", "full", "chunked"},
        a \in 0..1}

\* ------------------------------------------- pure parts of the unit ------
\* Line 314: requests.head(url, allow_redirects=True) passes no timeout, and
\* line 343: requests.get(url, stream=True, headers=headers) passes none;
\* requests then waits for the server without limit.
HeadHasTimeout == FALSE
GetHasTimeout == FALSE

\* Faulty variant of PathOf: every call works on the first entry's path.
SharedPath(e) == CHOOSE p \in entries : \A q \in entries : p <= q

\* Line 310: filepath = Path(entry["download_filepath"]); the entries of a
\* batch have pairwise distinct paths, and path e is the path of entry e.
PathOf(e) == e

\* Lines 313-319: remote_size from the HEAD response, 0 on any failure.
HeadSize(e, n) == IF n.head = "ok" THEN Len(Content(e)) ELSE 0

\* Faulty variant of SkipCond: the sizes compared with > instead of ==.
SkipCondWrongComparison(exists, ls, rs) == exists /\ ls > rs /\ rs > 0

\* Faulty variant of SkipCond: the test remote_size > 0 left out.
SkipCondNoZeroGuard(exists, ls, rs) == exists /\ ls = rs

\* Line 324 (inside `if filepath.exists()`).
SkipCond(exists, ls, rs) == exists /\ ls = rs /\ rs > 0

\* Faulty variant of ResumeCond: the test local_size > 0 left out.
ResumeCondNoLowerGuard(ls, rs) == ls < rs

\* Line 336.
ResumeCond(ls, rs) == ls > 0 /\ ls < rs

\* Lines 333 and 336-338: the headers of the GET request.
RequestHeaders(ls, rs) == IF ResumeCond(ls, rs) THEN <<ls>> ELSE <<>>

\* Faulty variant of RequestMode: line 339 left out.
RequestModeAlwaysTruncate(ls, rs) == "wb"

\* Lines 334 and 336-339: the mode the file will be opened with.
RequestMode(ls, rs) == IF ResumeCond(ls, rs) THEN "ab" ELSE "wb"

\* The status the server answers a GET with.
ServerStatus(n, hdr) ==
    IF n.get = "status" THEN 404
    ELSE IF n.get \in {"range", "chunked"} /\ hdr # <<>> THEN 206
    ELSE 200

\* The body the server sends with that status.
ServerBody(e, st, hdr) ==
    IF st = 206 THEN SubSeq(Content(e), hdr[1] + 1, Len(Content(e)))
    ELSE IF st = 200 THEN Content(e)
    ELSE <<>>

\* Faulty variant of ContentLength: the bytes of the whole resource.
ContentLengthOfResource(e, n, resp) == Len(Content(e))

\* Line 346: int(response.headers.get("content-length", 0)).
ContentLength(e, n, resp) == IF n.get = "chunked" THEN 0 ELSE Len(resp)

\* Faulty variant of AcceptStatus: the status is not examined.
AcceptAnyStatus(st) == TRUE

\* Line 345.
AcceptStatus(st) == st \in {200, 206}

\* Faulty variant of ModeFor: line 353 left out.
ModeKept(st, m) == m

\* Lines 350-353: mode after the response.
ModeFor(st, m) == IF st = 200 THEN "wb" ELSE m

\* Lines 350-352: local_size after the response.
LocalSizeFor(st, ls) == IF st = 200 THEN 0 ELSE ls

\* Lines 357-360.
TotalDownloadBytes(st, ls, len) == IF st = 206 THEN ls + len ELSE len

\* Faulty variant of InitialProgress: the test of the status inverted.
InitialProgressInverted(st, ls) == IF st = 206 THEN 0 ELSE ls

\* Line 365.
InitialProgress(st, ls) == IF st = 206 THEN ls ELSE 0

\* Faulty variant of OpenFile: the file is emptied whatever the mode.
OpenFileTruncating(f, m) == File(<<>>)

\* Line 363: filepath.open(mode).
OpenFile(f, m) == IF m = "wb" THEN File(<<>>) ELSE File(f.data)

\* Faulty variant of FileWrite: the file is positioned at 0 before a write.
FileWriteAtStart(data, chunk) == chunk \o SubSeq(data, Len(chunk) + 1, Len(data))

\* Line 372: file_out.write(chunk); the position of a file opened "wb" or
\* "ab" and only written is its end.
FileWrite(data, chunk) == data \o chunk

\* Faulty variant of AfterFailure: the request is sent again.
RetryAfterFailure == "get"

\* Lines 374-379: after the print of line 375 or of line 377 the call
\* reaches the return of line 379.
AfterFailure == "done"

Min(a, b) == IF a < b THEN a ELSE b

\* Line 370: the next chunk of at most chunk_size bytes.
NextChunk(b) == SubSeq(b, 1, Min(ChunkSize, Len(b)))
RestAfterChunk(b) == SubSeq(b, Min(ChunkSize, Len(b)) + 1, Len(b))

\* ------------------------------------------------------ the coordinator --
Running == {e \in entries : upc[e] \in {"head", "check", "get", "stream"}}
Terminated == {e \in entries : upc[e] \in {"done", "raised"}}

\* Faulty variant of Pending: a call that returned is still in the queue.
PendingOrReturned(e) == upc[e] \in {"queued", "done"}

\* Lines 392-394: executor.submit puts one work item per entry into the
\* pool's queue, and a worker that takes an item removes it.
Pending(e) == upc[e] = "queued"

\* Faulty variant of WorkerAvailable: a thread per submitted call.
WorkerAlwaysAvailable == TRUE

\* Line 392: the pool runs at most max_workers calls at a time.
WorkerAvailable == Cardinality(Running) < concurrency

\* Faulty variant of AfterResult: future.result() outside any try.
ResultPropagates(e) == IF upc[e] = "raised" THEN "raised" ELSE "collect"

\* Lines 398-402: future.result() inside try/except Exception.
AfterResult(e) == "collect"

\* Lines 399-402: the line printed for a future.
ReportLine(e) == IF upc[e] = "raised" THEN "Error" ELSE "Downloaded"

\* Faulty variant of AllCollected: return after the first future.
SomeCollected == \E e \in entries : report[e] # "none"

\* Lines 396 and 392: as_completed yields every future, and leaving the
\* with-block waits for the pool.
AllCollected == \A e \in entries : report[e] # "none"

\* ------------------------------------------------------------- Init ------
FreshUnits ==
    /\ upc = [e \in entries |-> "new"]
    /\ remote_size = [e \in entries |-> 0]
    /\ local_size = [e \in entries |-> 0]
    /\ headers = [e \in entries |-> <<>>]
    /\ mode = [e \in entries |-> "wb"]
    /\ status = [e \in entries |-> 0]
    /\ total = [e \in entries |-> 0]
    /\ progress = [e \in entries |-> 0]
    /\ body = [e \in entries |-> <<>>]
    /\ chunks = [e \in entries |-> 0]
    /\ exit = [e \in entries |-> "none"]
    /\ headReqs = [e \in entries |-> 0]
    /\ getReqs = [e \in entries |-> 0]

InitCommon ==
    /\ cpc = "submit"
    /\ submitted = 0
    /\ report = [e \in entries |-> "none"]
    /\ FreshUnits
    /\ disk0 = disk
    /\ prevExit = [e \in entries |-> "none"]

\* One entry, every file and every server behaviour.
InitUnit ==
    /\ entries = {1}
    /\ concurrency = 1
    /\ net \in [entries -> NetBehaviours]
    /\ disk \in [entries -> UNION {InitialFiles(e) : e \in entries}]
    /\ \A e \in entries : disk[e] \in InitialFiles(e)
    /\ InitCommon

\* What a batch is made of: per entry one of a fresh download, a resource
\* answering 404 to HEAD (raise_for_status raises) and to GET, a stream that
\* breaks after its first chunk (the next run resumes it), and a path that
\* cannot be examined.
GoodServer == Behaviour("ok", "range", FALSE, 0)

BatchCases(e) ==
    {<<Absent, GoodServer>>,
     <<Absent, Behaviour("fail", "status", FALSE, 0)>>,
     <<Absent, Behaviour("ok", "range", TRUE, 1)>>,
     <<Denied, GoodServer>>}

\* A batch of NumEntries entries run with any limit up to MaxWorkers.
Init ==
    /\ entries = 1..NumEntries
    /\ concurrency \in 1..MaxWorkers
    /\ \E c \in [entries -> UNION {BatchCases(e) : e \in entries}] :
          /\ \A e \in entries : c[e] \in BatchCases(e)
          /\ disk = [e \in entries |-> c[e][1]]
          /\ net = [e \in entries |-> c[e][2]]
    /\ InitCommon

\* ------------------------------------------------- download_files --------
\* Line 394: executor.submit for the next entry of the list.
Submit(e) ==
    /\ cpc = "submit"
    /\ e = submitted + 1
    /\ e \in entries
    /\ upc[e] = "new"
    /\ upc' = [upc EXCEPT ![e] = "queued"]
    /\ submitted' = e
    /\ cpc' = IF e = Cardinality(entries) THEN "collect" ELSE "submit"
    /\ UNCHANGED <<entries, concurrency, net, report, disk, disk0, prevExit,
                   remote_size, local_size, headers, mode, status, total,
                   progress, body, chunks, exit, headReqs, getReqs>>

\* A pool worker takes the oldest queued call.
Start(e) ==
    /\ Pending(e)
    /\ \A o \in entries : Pending(o) => e <= o
    /\ WorkerAvailable
    /\ upc' = [upc EXCEPT ![e] = "head"]
    /\ UNCHANGED <<coordVars, disk, disk0, prevExit,
                   remote_size, local_size, headers, mode, status, total,
                   progress, body, chunks, exit, headReqs, getReqs>>

\* Lines 396-402: one iteration of the as_completed loop.
Collect(e) ==
    /\ cpc = "collect"
    /\ e \in Terminated
    /\ report[e] = "none"
    /\ report' = [report EXCEPT ![e] = ReportLine(e)]
    /\ cpc' = AfterResult(e)
    /\ UNCHANGED <<entries, concurrency, net, submitted, unitVars,
                   disk, disk0, prevExit>>

\* Line 402 is the last line: download_files returns.
Return ==
    /\ cpc = "collect"
    /\ AllCollected
    /\ cpc' = "returned"
    /\ UNCHANGED <<entries, concurrency, net, submitted, report, unitVars,
                   disk, disk0, prevExit>>

\* The caller runs the batch again on the same entries (line 458, rerun).
Reinvoke ==
    /\ cpc = "returned"
    /\ cpc' = "submit"
    /\ submitted' = 0
    /\ report' = [e \in entries |-> "none"]
    /\ upc' = [e \in entries |-> "new"]
    /\ remote_size' = [e \in entries |-> 0]
    /\ local_size' = [e \in entries |-> 0]
    /\ headers' = [e \in entries |-> <<>>]
    /\ mode' = [e \in entries |-> "wb"]
    /\ status' = [e \in entries |-> 0]
    /\ total' = [e \in entries |-> 0]
    /\ progress' = [e \in entries |-> 0]
    /\ body' = [e \in entries |-> <<>>]
    /\ chunks' = [e \in entries |-> 0]
    /\ exit' = [e \in entries |-> "none"]
    /\ headReqs' = [e \in entries |-> 0]
    /\ getReqs' = [e \in entries |-> 0]
    /\ disk0' = disk
    /\ prevExit' = exit
    /\ UNCHANGED <<entries, concurrency, net, disk>>

\* ------------------------------------------------- _download_file --------
\* Lines 312-319: the HEAD request, from its answer or its exception on.
HeadRequest(e) ==
    /\ upc[e] = "head"
    /\ (net[e].head = "hang") => HeadHasTimeout
    /\ remote_size' = [remote_size EXCEPT ![e] = HeadSize(e, net[e])]
    /\ headReqs' = [headReqs EXCEPT ![e] = @ + 1]
    /\ upc' = [upc EXCEPT ![e] = "check"]
    /\ UNCHANGED <<coordVars, disk, disk0, prevExit, local_size, headers, mode,
                   status, total, progress, body, chunks, exit, getReqs>>

\* Lines 321-339: examine the local file, skip or choose headers and mode.
CheckLocal(e) ==
    /\ upc[e] = "check"
    /\ LET exists == disk[PathOf(e)].st = "file"
           ls == IF exists THEN Len(disk[PathOf(e)].data) ELSE 0
           rs == remote_size[e]
       IN  IF disk[PathOf(e)].st = "denied"
           THEN /\ upc' = [upc EXCEPT ![e] = "raised"]
                /\ exit' = [exit EXCEPT ![e] = "raised"]
                /\ UNCHANGED <<local_size, headers, mode>>
           ELSE IF SkipCond(exists, ls, rs)
           THEN /\ upc' = [upc EXCEPT ![e] = "done"]
                /\ exit' = [exit EXCEPT ![e] = "skip"]
                /\ local_size' = [local_size EXCEPT ![e] = ls]
                /\ UNCHANGED <<headers, mode>>
           ELSE /\ upc' = [upc EXCEPT ![e] = "get"]
                /\ local_size' = [local_size EXCEPT ![e] = ls]
                /\ headers' = [headers EXCEPT ![e] = RequestHeaders(ls, rs)]
                /\ mode' = [mode EXCEPT ![e] = RequestMode(ls, rs)]
                /\ UNCHANGED exit
    /\ UNCHANGED <<coordVars, disk, disk0, prevExit, remote_size, status, total,
                   progress, body, chunks, headReqs, getReqs>>

\* Lines 342-369 and 374-377: the GET request up to the opened file.
Get(e) ==
    /\ upc[e] = "get"
    /\ (net[e].get = "hang") => GetHasTimeout
    /\ getReqs' = [getReqs EXCEPT ![e] = @ + 1]
    /\ LET st == ServerStatus(net[e], headers[e])
           resp == ServerBody(e, st, headers[e])
           m == ModeFor(st, mode[e])
           ls == LocalSizeFor(st, local_size[e])
       IN  IF net[e].get \in {"raise", "hang"}
           THEN /\ upc' = [upc EXCEPT ![e] = AfterFailure]
                /\ exit' = [exit EXCEPT ![e] = "error"]
                /\ UNCHANGED <<status, mode, local_size, total, progress, body, disk>>
           ELSE IF ~AcceptStatus(st)
           THEN /\ upc' = [upc EXCEPT ![e] = AfterFailure]
                /\ exit' = [exit EXCEPT ![e] = "status"]
                /\ status' = [status EXCEPT ![e] = st]
                /\ UNCHANGED <<mode, local_size, total, progress, body, disk>>
           ELSE /\ upc' = [upc EXCEPT ![e] = "stream"]
                /\ status' = [status EXCEPT ![e] = st]
                /\ mode' = [mode EXCEPT ![e] = m]
                /\ local_size' = [local_size EXCEPT ![e] = ls]
                /\ total' = [total EXCEPT ![e] = TotalDownloadBytes(st, ls, ContentLength(e, net[e], resp))]
                /\ progress' = [progress EXCEPT ![e] = InitialProgress(st, ls)]
                /\ body' = [body EXCEPT ![e] = resp]
                /\ disk' = [disk EXCEPT ![PathOf(e)] = OpenFile(disk[PathOf(e)], m)]
                /\ UNCHANGED exit
    /\ UNCHANGED <<coordVars, disk0, prevExit, remote_size, headers, chunks, headReqs>>

\* Lines 370-373: one chunk read, written and counted.
WriteChunk(e) ==
    /\ upc[e] = "stream"
    /\ body[e] # <<>>
    /\ ~(net[e].drop /\ net[e].at = chunks[e])
    /\ disk' = [disk EXCEPT ![PathOf(e)] = File(FileWrite(disk[PathOf(e)].data, NextChunk(body[e])))]
    /\ progress' = [progress EXCEPT ![e] = @ + Len(NextChunk(body[e]))]
    /\ body' = [body EXCEPT ![e] = RestAfterChunk(body[e])]
    /\ chunks' = [chunks EXCEPT ![e] = @ + 1]
    /\ UNCHANGED <<coordVars, disk0, prevExit, upc, remote_size, local_size, headers,
                   mode, status, total, exit, headReqs, getReqs>>

\* Line 370 ends the loop; line 379 returns.
StreamEnd(e) ==
    /\ upc[e] = "stream"
    /\ body[e] = <<>>
    /\ upc' = [upc EXCEPT ![e] = "done"]
    /\ exit' = [exit EXCEPT ![e] = "streamed"]
    /\ UNCHANGED <<coordVars, disk, disk0, prevExit, remote_size, local_size, headers,
                   mode, status, total, progress, body, chunks, headReqs, getReqs>>

\* Faulty variant of StreamError: the handler removes the partial file.
StreamErrorRollsBack(e) ==
    /\ upc[e] = "stream"
    /\ body[e] # <<>>
    /\ net[e].drop /\ net[e].at = chunks[e]
    /\ upc' = [upc EXCEPT ![e] = "done"]
    /\ exit' = [exit EXCEPT ![e] = "error"]
    /\ disk' = [disk EXCEPT ![PathOf(e)] = Absent]
    /\ UNCHANGED <<coordVars, disk0, prevExit, remote_size, local_size, headers,
                   mode, status, total, progress, body, chunks, headReqs, getReqs>>

\* Line 370 raises; lines 376-379 catch, print and return.
StreamError(e) ==
    /\ upc[e] = "stream"
    /\ body[e] # <<>>
    /\ net[e].drop /\ net[e].at = chunks[e]
    /\ upc' = [upc EXCEPT ![e] = AfterFailure]
    /\ exit' = [exit EXCEPT ![e] = "error"]
    /\ UNCHANGED <<coordVars, disk, disk0, prevExit, remote_size, local_size, headers,
                   mode, status, total, progress, body, chunks, headReqs, getReqs>>

Next ==
    \/ \E e \in entries : Submit(e)
    \/ \E e \in entries : Start(e)
    \/ \E e \in entries : Collect(e)
    \/ Return
    \/ Reinvoke
    \/ \E e \in entries : HeadRequest(e)
    \/ \E e \in entries : CheckLocal(e)
    \/ \E e \in entries : Get(e)
    \/ \E e \in entries : WriteChunk(e)
    \/ \E e \in entries : StreamEnd(e)
    \/ \E e \in entries : StreamError(e)

Spec == Init /\ [][Next]_vars

SpecUnit == InitUnit /\ [][Next]_vars

\* ------------------------------------------------------------ claims ------
\* The file entry e's call found, and what the decision table of the
\* specification chooses for it.
Past(e) == upc[e] \in {"get", "stream", "done"}

TableChoice(f, rs) ==
    IF f.st = "file" /\ Len(f.data) = rs /\ rs > 0 THEN "skip"
    ELSE IF f.st = "file" /\ Len(f.data) > 0 /\ Len(f.data) < rs THEN "resume"
    ELSE "restart"

\* C1: for every local file (absent, empty, k bytes) and every remote_size,
\* the call skips exactly when the table says skip, is about to send
\* Range: bytes=<local_size>- with mode "ab" exactly when it says resume, and
\* is about to send no Range header with mode "wb" in every other case.
C1_DecisionTable ==
    \A e \in entries :
        (Past(e) /\ disk0[e].st # "denied") =>
            LET choice == TableChoice(disk0[e], remote_size[e])
            IN  /\ (exit[e] = "skip") <=> (choice = "skip")
                /\ choice = "skip" => (upc[e] = "done" /\ getReqs[e] = 0)
                /\ (upc[e] = "get" /\ choice = "resume") =>
                        (headers[e] = <<Len(disk0[e].data)>> /\ mode[e] = "ab")
                /\ (upc[e] = "get" /\ choice = "restart") =>
                        (headers[e] = <<>> /\ mode[e] = "wb")
                /\ (headers[e] # <<>>) <=> (choice = "resume")

C1_Witness ==
    \E e \in entries :
        /\ upc[e] = "get"
        /\ TableChoice(disk0[e], remote_size[e]) = "resume"
        /\ headers[e] = <<2>>
        /\ mode[e] = "ab"

\* The bytes a ranged request from offset k is answered with.
BytesFrom(e, k) == SubSeq(Content(e), k + 1, Len(Content(e)))

Resumed(e) ==
    /\ upc[e] = "done"
    /\ exit[e] = "streamed"
    /\ status[e] = 206
    /\ disk0[e].st = "file"
    /\ Len(disk0[e].data) > 0
    /\ Len(disk0[e].data) < remote_size[e]

\* C2 as stated: a call started on a local file of k bytes, 0 < k <
\* remote_size, answered 206 and streamed to the end, asked for the bytes from
\* k on and leaves a file of remote_size bytes equal to the resource.
C2_Original ==
    \A e \in entries :
        Resumed(e) =>
            /\ headers[e] = <<Len(disk0[e].data)>>
            /\ Len(disk[e].data) = remote_size[e]
            /\ disk[e].data = Content(e)

\* C2 amended: such a call asked for the bytes from k on and leaves a file of
\* remote_size bytes made of the k bytes it found followed by the resource's
\* bytes from k on; the file equals the resource when the k bytes it found
\* are the resource's first k bytes.
C2_ResumeCorrect ==
    \A e \in entries :
        Resumed(e) =>
            LET k == Len(disk0[e].data)
            IN  /\ headers[e] = <<k>>
                /\ Len(disk[e].data) = remote_size[e]
                /\ disk[e].data = disk0[e].data \o BytesFrom(e, k)
                /\ (disk0[e].data = SubSeq(Content(e), 1, k))
                        => (disk[e].data = Content(e))

C2_Witness ==
    \E e \in entries :
        /\ Resumed(e)
        /\ disk0[e].data = SubSeq(Content(e), 1, 1)
        /\ disk[e].data = Content(e)
        /\ chunks[e] = 2

FellBack(e) == headers[e] # <<>> /\ status[e] = 200

\* C3: a call that sent a Range header and was answered 200 opens the file
\* truncating, expects the reported content length, counts from 0, writes
\* the response from offset 0 (the file is always a prefix of the resource,
\* nothing of the old file is left), and after an unbroken stream the file is
\* the resource, as long as the reported length.
C3_Fallback ==
    \A e \in entries :
        FellBack(e) =>
            /\ mode[e] = "wb"
            /\ local_size[e] = 0
            /\ total[e] = (IF net[e].get = "chunked" THEN 0 ELSE Len(Content(e)))
            /\ progress[e] = Len(disk[e].data)
            /\ disk[e].data = SubSeq(Content(e), 1, Len(disk[e].data))
            /\ (exit[e] = "streamed") =>
                    /\ disk[e].data = Content(e)
                    /\ (net[e].get # "chunked") => (Len(disk[e].data) = total[e])

C3_Witness ==
    \E e \in entries :
        /\ FellBack(e)
        /\ exit[e] = "streamed"
        /\ Len(disk0[e].data) = 2
        /\ disk[e].data = Content(e)

AlreadyComplete(e) ==
    /\ disk0[e].st = "file"
    /\ Len(disk0[e].data) = remote_size[e]
    /\ remote_size[e] > 0

\* C4: a call that finds a local file of remote_size > 0 bytes ends at once
\* by the skip return, having issued the HEAD request and no GET, counted no
\* byte, and left the file as it was.
C4_SkipNoTransfer ==
    \A e \in entries :
        (Past(e) /\ AlreadyComplete(e)) =>
            /\ upc[e] = "done"
            /\ exit[e] = "skip"
            /\ headReqs[e] = 1
            /\ getReqs[e] = 0
            /\ status[e] = 0
            /\ progress[e] = 0
            /\ disk[e] = disk0[e]

C4_Witness ==
    \E e \in entries :
        /\ AlreadyComplete(e)
        /\ upc[e] = "done"
        /\ exit[e] = "skip"
        /\ prevExit[e] = "none"

Completed(x) == x \in {"skip", "streamed"}

\* C5 as stated, read over the entries the first run completed: in a run
\* that follows another, every such entry ends by the skip return with no GET
\* issued and its file as the first run left it.
C5_Original ==
    \A e \in entries :
        (Completed(prevExit[e]) /\ upc[e] = "done") =>
            (exit[e] = "skip" /\ getReqs[e] = 0 /\ disk[e] = disk0[e])

\* C5 amended: in a run that follows another, every entry that the previous
\* run completed and whose HEAD request reports the resource's length ends by
\* the skip return, no GET is issued for it and its file stays, throughout
\* the run, as the previous run left it.
C5_Idempotent ==
    \A e \in entries :
        (Completed(prevExit[e]) /\ net[e].head = "ok") =>
            /\ getReqs[e] = 0
            /\ disk[e] = disk0[e]
            /\ upc[e] \notin {"get", "stream", "raised"}
            /\ (upc[e] = "done") => (exit[e] = "skip")

C5_Witness ==
    \E e \in entries :
        /\ prevExit[e] = "streamed"
        /\ exit[e] = "skip"
        /\ cpc = "returned"
        /\ disk[e] = File(Content(e))

\* C6: a call that ended by the skip return or by reading its response to
\* the end, with remote_size known and nonzero, leaves a file of exactly
\* remote_size bytes.
C6_SizeOnCompletion ==
    \A e \in entries :
        (upc[e] = "done" /\ Completed(exit[e]) /\ remote_size[e] > 0) =>
            (disk[e].st = "file" /\ Len(disk[e].data) = remote_size[e])

C6_Witness ==
    \E e \in entries :
        /\ upc[e] = "done"
        /\ exit[e] = "streamed"
        /\ remote_size[e] > 0
        /\ Len(disk0[e].data) > remote_size[e]
        /\ Len(disk[e].data) = remote_size[e]

\* C7: at no time are more than `concurrency` calls of _download_file
\* executing.
C7_ConcurrencyBound == Cardinality(Running) <= concurrency

C7_Witness ==
    /\ concurrency = 2
    /\ Cardinality(Running) = 2
    /\ \E e \in entries : upc[e] = "queued"

\* An entry whose own file and server give no cause of failure.
Healthy(e) ==
    /\ disk0[e].st # "denied"
    /\ net[e].get \in {"range", "full", "chunked"}
    /\ ~net[e].drop

Failure(x) == x \in {"status", "error", "raised"}

\* A step in which a call fails changes nothing of any other call or file.
OthersUntouched ==
    \A e \in entries :
        (exit[e] # exit'[e] /\ Failure(exit'[e])) =>
            \A o \in entries \ {e} :
                /\ upc'[o] = upc[o]
                /\ exit'[o] = exit[o]
                /\ disk'[o] = disk[o]
                /\ body'[o] = body[o]
                /\ report'[o] = report[o]

\* C8: whatever fails in other calls (HEAD failure, 404, broken stream,
\* exception out of the call), download_files never stops on an exception,
\* a failing step leaves every other call as it was, and when download_files
\* has returned every healthy entry has completed with its whole file.
C8_Isolation ==
    /\ [](cpc # "raised")
    /\ [](cpc = "returned" =>
            \A e \in entries :
                Healthy(e) => (Completed(exit[e]) /\ disk[e] = File(Content(e))))
    /\ [][OthersUntouched]_vars

C8_Witness ==
    /\ cpc = "returned"
    /\ \E a, b, c \in entries :
          /\ exit[a] = "error"
          /\ disk[a].data # Content(a)
          /\ exit[b] = "raised"
          /\ Healthy(c)
          /\ exit[c] = "streamed"

\* C9: download_files has returned only if every entry was submitted, its
\* call has ended and its future was collected.
C9_FanIn ==
    (cpc = "returned") =>
        /\ submitted = Cardinality(entries)
        /\ \A e \in entries :
              /\ upc[e] \in {"done", "raised"}
              /\ exit[e] # "none"
              /\ report[e] # "none"

C9_Witness ==
    /\ cpc = "returned"
    /\ \A e \in entries : upc[e] = "done" /\ exit[e] = "streamed"

\* C10: the line download_files prints for an entry tells what happened to
\* its call: "Downloaded" only for a call that skipped or read its response
\* to the end, and a failure line for every other call.
C10_Claim ==
    \A e \in entries :
        (report[e] # "none") =>
            ((report[e] = "Downloaded") <=> Completed(exit[e]))

\* The call's stream broke: a response was accepted and the call ended in
\* the handler of line 376.
Interrupted(e) == upc[e] = "done" /\ exit[e] = "error" /\ AcceptStatus(status[e])

\* The bytes the file held when the response's first chunk was written, and
\* the bytes of the response written since.
BaseBytes(e) == IF status[e] = 206 THEN disk0[e].data ELSE <<>>
WrittenBytes(e) ==
    LET resp == ServerBody(e, status[e], headers[e])
    IN  SubSeq(resp, 1, Min(chunks[e] * ChunkSize, Len(resp)))

\* C11: a call whose stream broke ended inside _download_file (nothing was
\* raised to the pool), its file holds exactly the bytes it held at the first
\* write followed by the chunks written before the error, the file stays so
\* while the call is ended, and the next run, finding k bytes with
\* 0 < k < remote_size after such a call, sends Range: bytes=k- with mode "ab".
C11_InterruptedKeepsPartial ==
    /\ [](\A e \in entries :
            Interrupted(e) =>
                /\ disk[e].st = "file"
                /\ disk[e].data = BaseBytes(e) \o WrittenBytes(e))
    /\ [](\A e \in entries :
            (prevExit[e] = "error" /\ upc[e] = "get" /\ disk0[e].st = "file"
                /\ Len(disk0[e].data) > 0 /\ Len(disk0[e].data) < remote_size[e]) =>
                (headers[e] = <<Len(disk0[e].data)>> /\ mode[e] = "ab"))
    /\ [][\A e \in entries : Interrupted(e) => disk'[e] = disk[e]]_vars

C11_Witness ==
    \E e \in entries :
        /\ prevExit[e] = "error"
        /\ disk0[e] = File(SubSeq(Content(e), 1, 2))
        /\ upc[e] = "get"
        /\ headers[e] = <<2>>
        /\ mode[e] = "ab"

\* The HEAD request failed or its answer carried no content-length.
MetadataUnknown(e) == net[e].head \in {"fail", "nolen"}

\* C12: when the HEAD request fails or reports no length, the call goes on
\* with remote_size = 0 and, whatever file it found (none, empty, k bytes),
\* never skips, never sends a Range header, issues one GET with mode "wb",
\* and an accepted response is a 200 written from byte 0 over a truncated
\* file.
C12_MetadataFailure ==
    \A e \in entries :
        (MetadataUnknown(e) /\ disk0[e].st # "denied" /\ Past(e)) =>
            /\ remote_size[e] = 0
            /\ exit[e] \notin {"skip", "raised"}
            /\ headers[e] = <<>>
            /\ mode[e] = "wb"
            /\ (upc[e] # "get") => (getReqs[e] = 1)
            /\ (upc[e] # "get" /\ AcceptStatus(status[e])) =>
                    (status[e] = 200 /\ disk[e] = File(WrittenBytes(e)))

C12_Witness ==
    \E e \in entries :
        /\ MetadataUnknown(e)
        /\ disk0[e] = File(Junk(ResourceLen))
        /\ upc[e] = "done"
        /\ exit[e] = "streamed"
        /\ disk[e] = File(Content(e))

\* The GET was answered with a status that is neither 200 nor 206.
UnexpectedStatus(e) == status[e] \notin {0, 200, 206}

\* C13: a call whose GET was answered with a status other than 200 and 206
\* has ended in the else branch of line 374, after one HEAD and one GET,
\* without reading a chunk or counting a byte, and the file is what the run
\* found (same bytes, or still absent).
C13_UnexpectedStatus ==
    \A e \in entries :
        UnexpectedStatus(e) =>
            /\ upc[e] = "done"
            /\ exit[e] = "status"
            /\ headReqs[e] = 1
            /\ getReqs[e] = 1
            /\ chunks[e] = 0
            /\ progress[e] = 0
            /\ disk[e] = disk0[e]

C13_Witness ==
    \E e \in entries :
        /\ UnexpectedStatus(e)
        /\ exit[e] = "status"
        /\ headers[e] = <<1>>
        /\ disk[e] = File(SubSeq(Content(e), 1, 1))

\* C14: no call waits without limit: as long as download_files has not
\* returned, some step of it or of one of its calls is possible, even when a
\* server never answers.
C14_Claim == (cpc = "returned") \/ ENABLED Next

\* The run found no file and the server answers the GET and does not break
\* the stream.
FreshAndServed(e) ==
    /\ disk0[e] = Absent
    /\ net[e].get \in {"range", "full", "chunked"}
    /\ ~net[e].drop

\* C15: a call that finds no local file and is served without error sends
\* one GET without Range header, is answered 200, writes the resource's
\* bytes in order (the file is at every moment the part of the response read
\* so far) and ends with the whole resource, ResourceLen bytes, counted and
\* written.
C15_FreshDownload ==
    \A e \in entries :
        (FreshAndServed(e) /\ Past(e)) =>
            /\ headers[e] = <<>>
            /\ exit[e] # "skip"
            /\ (upc[e] # "get") =>
                    /\ getReqs[e] = 1
                    /\ status[e] = 200
                    /\ disk[e] = File(WrittenBytes(e))
            /\ (upc[e] = "done") =>
                    /\ exit[e] = "streamed"
                    /\ disk[e] = File(Content(e))
                    /\ Len(disk[e].data) = ResourceLen
                    /\ progress[e] = ResourceLen

C15_Witness ==
    \E e \in entries :
        /\ FreshAndServed(e)
        /\ remote_size[e] = ResourceLen
        /\ upc[e] = "done"
        /\ exit[e] = "streamed"
        /\ chunks[e] = 2
        /\ report[e] = "Downloaded"

\* The calls that have the file at path p open for writing (inside the
\* with-block of line 363).
Writers(p) == {e \in entries : upc[e] = "stream" /\ PathOf(e) = p}

\* A step changes the file at a path only if it is a step of the call of
\* that path's entry, opening the file or writing a chunk to it.
OnlyOwnFile ==
    \A p \in entries :
        (disk'[p] # disk[p]) =>
            \/ upc[p] = "get" /\ upc'[p] = "stream"
            \/ upc[p] = "stream" /\ chunks'[p] = chunks[p] + 1

\* C16: the entries having pairwise distinct paths, no path is ever open for
\* writing in two calls at once, and a call changes no file but the one at
\* its own entry's path.
C16_ExclusiveWriter ==
    /\ [](\A p \in entries : Cardinality(Writers(p)) <= 1)
    /\ [][OnlyOwnFile]_vars

C16_Witness ==
    \E a, b \in entries :
        /\ a # b
        /\ upc[a] = "stream" /\ chunks[a] = 1
        /\ upc[b] = "stream" /\ chunks[b] = 1
        /\ disk[a] = File(SubSeq(Content(a), 1, 2))
        /\ disk[b] = File(SubSeq(Content(b), 1, 2))

\* A call that has ended changes position only by a new invocation of
\* download_files.
EndedStaysEnded ==
    \A e \in entries :
        (upc[e] \in {"done", "raised"} /\ upc'[e] # upc[e]) =>
            (cpc = "returned" /\ upc'[e] = "new")

\* C17: in one run a call issues at most one HEAD and at most one GET,
\* exactly one HEAD once past line 319 and exactly one GET once past line
\* 343, whatever the outcome; a call that has ended starts again only when
\* download_files is invoked again.
C17_NoRetry ==
    /\ [](\A e \in entries :
            /\ headReqs[e] <= 1
            /\ getReqs[e] <= 1
            /\ (upc[e] \in {"check", "get", "stream", "done", "raised"})
                    => (headReqs[e] = 1)
            /\ (upc[e] = "stream" \/ exit[e] \in {"streamed", "error", "status"})
                    => (getReqs[e] = 1))
    /\ [][EndedStaysEnded]_vars

C17_Witness ==
    \E e \in entries :
        /\ prevExit[e] = "error"
        /\ net[e].get = "raise"
        /\ upc[e] = "done"
        /\ exit[e] = "error"
        /\ headReqs[e] = 1
        /\ getReqs[e] = 1

\* A step that changes the file of a call that is streaming adds the next
\* chunk of the response, not empty, after the bytes already there.
AppendsNextChunk ==
    \A e \in entries :
        (upc[e] = "stream" /\ disk'[e] # disk[e]) =>
            /\ NextChunk(body[e]) # <<>>
            /\ Len(disk'[e].data) > Len(disk[e].data)
            /\ disk'[e].data = disk[e].data \o NextChunk(body[e])

\* C18: while a call streams, its file is the bytes it held at the first
\* write followed by the chunks received so far in their order, and every
\* write adds a chunk at the end of the file: the offset written at grows
\* strictly and no earlier offset is written again.
C18_SequentialWrites ==
    /\ [](\A e \in entries :
            (upc[e] = "stream") =>
                (disk[e] = File(BaseBytes(e) \o WrittenBytes(e))))
    /\ [][AppendsNextChunk]_vars

C18_Witness ==
    \E e \in entries :
        /\ upc[e] = "stream"
        /\ status[e] = 206
        /\ chunks[e] = 2
        /\ body[e] = <<>>
        /\ disk0[e] = File(Junk(1))
        /\ Len(disk[e].data) = ResourceLen

\* The response of the current run was accepted and the file opened.
Streaming(e) == upc[e] \in {"stream", "done"} /\ status[e] \in {200, 206}

\* The response carried a content-length header.
LengthReported(e) == net[e].get # "chunked"

\* Within a run the counter of a call never decreases, and a step that
\* writes a chunk adds the chunk's length to it.
CounterStep ==
    \A e \in entries :
        (upc'[e] # "new") =>
            /\ progress'[e] >= progress[e]
            /\ (upc[e] = "stream" /\ disk'[e] # disk[e]) =>
                    (progress'[e] = progress[e] + Len(NextChunk(body[e])))

\* The counter starts at local_size on a 206 and at 0 on a 200, and the
\* expected total is local_size plus the reported length on a 206 and the
\* reported length on a 200 (0 where the response reports none).
CounterStart ==
    \A e \in entries :
        Streaming(e) =>
            LET reported == IF LengthReported(e)
                            THEN Len(ServerBody(e, status[e], headers[e]))
                            ELSE 0
            IN  /\ (status[e] = 206) =>
                        /\ local_size[e] = Len(disk0[e].data)
                        /\ local_size[e] > 0
                        /\ progress[e] = local_size[e] + Len(WrittenBytes(e))
                        /\ total[e] = local_size[e] + reported
                /\ (status[e] = 200) =>
                        /\ progress[e] = Len(WrittenBytes(e))
                        /\ total[e] = reported

\* C19 as stated: after an unbroken stream the counter equals the expected
\* total and the length of the file, whatever the response reported.
C19_Original ==
    \A e \in entries :
        (Streaming(e) /\ exit[e] = "streamed") =>
            /\ progress[e] = total[e]
            /\ progress[e] = Len(disk[e].data)

\* C19 (amended): the counter never decreases within a run and grows by the
\* length of each chunk written; on a 206 it starts at local_size with total
\* local_size + reported length, on a 200 at 0 with total the reported
\* length; after an unbroken stream it equals the length of the file, and it
\* equals the expected total when the response reported its content length.
C19_ProgressAccounting ==
    /\ []CounterStart
    /\ [](\A e \in entries :
            (Streaming(e) /\ exit[e] = "streamed") =>
                /\ progress[e] = Len(disk[e].data)
                /\ LengthReported(e) => (progress[e] = total[e]))
    /\ [][CounterStep]_vars

C19_Witness ==
    \E e \in entries :
        /\ Streaming(e)
        /\ exit[e] = "streamed"
        /\ status[e] = 206
        /\ LengthReported(e)
        /\ local_size[e] = 1
        /\ chunks[e] > 0
        /\ progress[e] = ResourceLen

\* The run found a file longer than the known, nonzero remote_size.
Oversized(e) ==
    /\ Past(e)
    /\ disk0[e].st = "file"
    /\ remote_size[e] > 0
    /\ Len(disk0[e].data) > remote_size[e]

\* C20: a call that finds a file longer than a known remote_size neither
\* skips nor resumes: it sends the GET without Range header and with mode
\* "wb"; answered 200, it truncates the file and writes the response from
\* offset 0 (the file is exactly the chunks written so far), and after an
\* unbroken stream the file is the resource, remote_size bytes long, which is
\* the content length the response reported.
C20_OversizedLocalFile ==
    \A e \in entries :
        Oversized(e) =>
            /\ exit[e] # "skip"
            /\ headers[e] = <<>>
            /\ mode[e] = "wb"
            /\ getReqs[e] = (IF upc[e] = "get" THEN 0 ELSE 1)
            /\ Streaming(e) =>
                    /\ status[e] = 200
                    /\ disk[e] = File(WrittenBytes(e))
            /\ (exit[e] = "streamed") =>
                    /\ disk[e] = File(Content(e))
                    /\ Len(disk[e].data) = remote_size[e]
                    /\ LengthReported(e) => (Len(disk[e].data) = total[e])

C20_Witness ==
    \E e \in entries :
        /\ Oversized(e)
        /\ disk0[e] = File(Junk(ResourceLen + 1))
        /\ exit[e] = "streamed"
        /\ LengthReported(e)
        /\ disk[e] = File(Content(e))

\* The HEAD request of the current run has failed.
MetadataFailed(e) == net[e].head = "fail" /\ upc[e] \notin {"new", "queued", "head"}

\* The GET of the current run raised before a response arrived.
FetchRaised(e) == exit[e] = "error" /\ status[e] = 0

\* C21 as stated: after a failed HEAD request, after a GET that raised or
\* after a status other than 200 and 206, the file is what the run found.
C21_Original ==
    \A e \in entries :
        (MetadataFailed(e) \/ FetchRaised(e) \/ UnexpectedStatus(e)) =>
            (disk[e] = disk0[e])

\* A step that changes the file of an entry belongs to a call whose GET has
\* been answered 200 or 206 by the end of the step.
TouchedOnlyWhenAccepted ==
    \A e \in entries :
        (disk'[e] # disk[e]) =>
            /\ status'[e] \in {200, 206}
            /\ getReqs'[e] = 1
            /\ upc'[e] = "stream"

\* C21 (amended): the file is opened, truncated or written only by a call
\* whose GET was answered 200 or 206; as long as the current run has no such
\* answer (the HEAD request failed or not, the GET raised, or the status is
\* another one) the file is what the run found, bytes or absence.
C21_TouchedAfterAccepted ==
    /\ [](\A e \in entries :
            (status[e] \notin {200, 206}) => (disk[e] = disk0[e]))
    /\ [][TouchedOnlyWhenAccepted]_vars

C21_Witness ==
    \E e \in entries :
        /\ MetadataFailed(e)
        /\ FetchRaised(e)
        /\ upc[e] = "done"
        /\ disk0[e] = File(SubSeq(Content(e), 1, 2))
        /\ disk[e] = disk0[e]

\* The call sent Range: bytes=k- and was answered 206.
RangedPartial(e) == headers[e] # <<>> /\ status[e] = 206

\* A step of a call answered 206 leaves the bytes the file already holds
\* where they are.
KeepsHeldBytes ==
    \A e \in entries :
        (RangedPartial(e) /\ upc'[e] # "new") =>
            /\ Len(disk'[e].data) >= Len(disk[e].data)
            /\ SubSeq(disk'[e].data, 1, Len(disk[e].data)) = disk[e].data

\* C22: from the 206 answer to a Range: bytes=k- request on, k is the length
\* of the file the run found, the file's first k bytes are the bytes the run
\* found, the file is never shorter than k, and it is so while chunks are
\* written, after the stream ended and after it broke.
C22_ResumeKeepsPrefix ==
    /\ [](\A e \in entries :
            RangedPartial(e) =>
                /\ disk0[e].st = "file"
                /\ headers[e] = <<Len(disk0[e].data)>>
                /\ disk[e].st = "file"
                /\ Len(disk[e].data) >= headers[e][1]
                /\ SubSeq(disk[e].data, 1, headers[e][1]) = disk0[e].data)
    /\ [][KeepsHeldBytes]_vars

C22_Witness ==
    \E e \in entries :
        /\ RangedPartial(e)
        /\ Interrupted(e)
        /\ chunks[e] = 1
        /\ disk0[e] = File(Junk(1))
        /\ disk[e] = File(Junk(1) \o SubSeq(Content(e), 2, 1 + ChunkSize))
        /\ Len(disk[e].data) < ResourceLen

\* The call for entry e has been handed to a worker in this run.
Dispatched(e) == upc[e] \notin {"new", "queued"}

\* A call begins only from the queue, on a free worker and after every
\* entry submitted before it; once begun it goes on to its end and does not
\* begin again in the run; no step changes the entries.
DispatchStep ==
    /\ entries' = entries
    /\ \A e \in entries :
          /\ (~Dispatched(e) /\ Dispatched(e)') =>
                /\ upc[e] = "queued"
                /\ upc'[e] = "head"
                /\ Cardinality(Running) < concurrency
                /\ \A o \in entries : (o < e) => Dispatched(o)
          /\ (Dispatched(e) /\ upc'[e] # "new") =>
                /\ Dispatched(e)'
                /\ (upc'[e] = "head") => (upc[e] = "head")
                /\ (upc[e] \in {"done", "raised"}) => (upc'[e] = upc[e])
                /\ headReqs'[e] <= 1

\* C23: in a run of download_files every entry is submitted once and its
\* call begins once, on a free worker (a worker holds one call until the call
\* has ended), no call begins a second time, when download_files returns
\* every entry's call has run exactly once to its end, and the entries stay
\* what the caller supplied.
C23_ExactlyOnce ==
    /\ []((cpc = "returned") =>
            \A e \in entries :
                upc[e] \in {"done", "raised"} /\ headReqs[e] = 1)
    /\ [](Cardinality({e \in entries : upc[e] # "new"}) = submitted)
    /\ [][DispatchStep]_vars

C23_Witness ==
    /\ cpc = "returned"
    /\ Cardinality(entries) = NumEntries
    /\ concurrency = 1
    /\ \A e \in entries : headReqs[e] = 1 /\ upc[e] \in {"done", "raised"}
    /\ \E e \in entries : exit[e] = "raised"
    /\ \E e \in entries : exit[e] = "streamed"

====
